---- MODULE Spec2Model ----
(***************************************************************************)
(* The game-state engine of game.py: movement and locks, the item-effect   *)
(* interpreter, the automatic combat state machine, the win/lose           *)
(* evaluator and save/load, driven by the command loop of main().          *)
(* One action is one iteration of the loop: the evaluator check, the       *)
(* dispatch of one parsed command and the trailing combat trigger.         *)
(***************************************************************************)
EXTENDS Integers, Sequences, FiniteSets, TLC

VARIABLES
    state,      \* the session dict of main(): current_room, inventory, ...
    rooms,      \* world["rooms"]: the room table (item lists are mutable)
    save_file,  \* the content of SAVE_FILE, None while it does not exist
    pc,         \* "loop": at the top of the while loop; "done": after break
    last,       \* history: the command dispatched by the latest iteration
    prev,       \* history: state and rooms before the latest iteration
    saved       \* history: state and rooms at the latest save

vars == <<state, rooms, save_file, pc, last, prev, saved>>

-----------------------------------------------------------------------------
(* Python values *)

None == [none |-> TRUE]

\* the value of a random draw a turn did not make
NA == 0 - 1

\* dict.get(key, default)
Get(d, key, default) == IF key \in DOMAIN d THEN d[key] ELSE default

Range(seq) == {seq[i] : i \in 1..Len(seq)}

\* list.remove(x): drops the first occurrence
Remove(seq, x) ==
    LET i == CHOOSE i \in 1..Len(seq) :
                 seq[i] = x /\ \A j \in 1..(i - 1) : seq[j] # x
    IN  SubSeq(seq, 1, i - 1) \o SubSeq(seq, i + 1, Len(seq))

Min(a, b) == IF a < b THEN a ELSE b
Max(a, b) == IF a > b THEN a ELSE b

\* list(a_set): the elements in some order
RECURSIVE SetToList(_)
SetToList(S) ==
    IF S = {} THEN <<>>
    ELSE LET x == CHOOSE x \in S : TRUE IN <<x>> \o SetToList(S \ {x})

-----------------------------------------------------------------------------
(* Program constants *)

MaxHealth == 100
BaseMin == 8
BaseMax == 14
BonusCap == 6
BonusStep == 25
BossChance == 30
NormalChance == 55

(* Bounds of the model: the move limit of the world's lose condition, and *)
(* the largest damage and shield given to apply_enemy_damage_to_player     *)
MoveLimit == 3
MaxDamage == 15
MaxShield == 12
MaxEnemyHP == 20

-----------------------------------------------------------------------------
(* The world description read by load_world: a small castle.  The Dungeon   *)
(* is the dark room of the engine and "Ember King" its boss.  The Vault has *)
(* neither an item list nor exits and is bound to an enemy that has no      *)
(* definition, the Den has no item list, and the exit north of the Dungeon  *)
(* has two lock records.                                                    *)

World ==
    [start_room |-> "Dungeon",
     rooms |->
        [Dungeon |-> [items |-> <<"torch", "iron_key", "amulet", "ration">>,
                      exits |-> [east |-> "Vault", north |-> "Crypt",
                                 west |-> "Den", down |-> "Pit"],
                      npcs  |-> <<[name |-> "Prisoner"]>>],
         Pit     |-> [items |-> <<"coin", "bell", "coin">>,
                      exits |-> [up |-> "Dungeon", north |-> "Crypt"]],
         Den     |-> [exits |-> [west |-> "Pit"]],
         Crypt   |-> [items |-> <<>>,
                      exits |-> [south |-> "Vault", west |-> "Dungeon"]],
         Vault   |-> [npcs |-> <<>>]],
     locked_exits |->
        <<[from |-> "Dungeon", direction |-> "north", requires_item |-> "iron_key"],
          [from |-> "Dungeon", direction |-> "north", requires_item |-> "crown"],
          [from |-> "Dungeon", direction |-> "west", requires_item |-> "lantern"],
          [from |-> "Crypt", direction |-> "south", requires_item |-> "lantern"]>>,
     enemies |->
        ("Rat" :> [max_hp |-> 9, attack_min |-> 40, attack_max |-> 41,
                   xp_reward |-> 25])
        @@ ("Ember King" :> [max_hp |-> 9, attack_min |-> 60, attack_max |-> 61,
                             xp_reward |-> 50]),
     room_enemies |->
        [Pit |-> "Rat", Den |-> "Rat", Crypt |-> "Ember King", Vault |-> "Shade"],
     usable_items |->
        [ration   |-> [effect |-> "heal_health", amount |-> 30],
         torch    |-> [effect |-> "light_room", rooms |-> <<"Dungeon">>],
         iron_key |-> [effect |-> "unlock_exit", from |-> "Dungeon",
                       direction |-> "north"],
         amulet   |-> [effect |-> "shield", amount |-> 10],
         bell     |-> [effect |-> "ring"]],
     win_condition |-> [type |-> "reach_room", room |-> "Vault"],
     lose_condition |-> [type |-> "max_moves", moves |-> MoveLimit]]

RoomNames == DOMAIN World.rooms

\* The words a player types after go / get / drop / use / talk to
Directions == {"down", "up", "east", "west", "south", "north", ""}
ItemNames == {"torch", "iron_key", "coin", "ration", "amulet", "bell", ""}
NpcNames == {"prisoner", ""}
\* look stands for help, look, inventory and health; attack is an unknown
\* verb outside a fight
OtherVerbs == {"look", "attack"}
\* random.random() in hundredths
Rolls == {10, 40, 70}

\* commands with a verb other than attack, use and run, typed during a fight
RejectedInCombat ==
    {[verb |-> "go", noun |-> "west"], [verb |-> "go", noun |-> "south"],
     [verb |-> "get", noun |-> "coin"], [verb |-> "drop", noun |-> "torch"],
     [verb |-> "talk", noun |-> "prisoner"], [verb |-> "save", noun |-> ""],
     [verb |-> "load", noun |-> ""], [verb |-> "look", noun |-> ""],
     [verb |-> "quit", noun |-> ""]}

\* normalise(text): strip and lower-case, on the names of the world
Normalise(text) == IF text = "Prisoner" THEN "prisoner" ELSE text

-----------------------------------------------------------------------------
(* Access control *)

is_exit_locked(from_room, direction) ==
    LET locks == World.locked_exits
        hits == {i \in 1..Len(locks) :
                    locks[i].from = from_room /\ locks[i].direction = direction}
    IN  IF hits = {} THEN None
        ELSE locks[CHOOSE i \in hits : \A j \in hits : i <= j]

Equivalents == [lantern |-> {"torch"}]

\* variant: only the exact item counts
has_equivalent_item_exact(s, required) ==
    required \in Range(s.inventory)

has_equivalent_item(s, required) ==
    LET inv == Range(s.inventory)
    IN  \/ required \in inv
        \/ /\ required \in DOMAIN Equivalents
           /\ inv \cap Equivalents[required] # {}

is_exit_unlocked(s, from_room, direction) ==
    <<from_room, direction>> \in s.unlocked_exits

Exits(rms, room) == Get(rms[room], "exits", <<>>)

\* The lock part of can_go (lines 99-105)
lock_allows(s, current, direction) ==
    LET lock == is_exit_locked(current, direction)
    IN  IF lock = None THEN TRUE
        ELSE ~ ("requires_item" \in DOMAIN lock
                /\ ~ has_equivalent_item(s, lock.requires_item))

can_go(s, rms, direction) ==
    LET current == s.current_room
        exits == Exits(rms, current)
    IN  IF direction \notin DOMAIN exits THEN FALSE
        ELSE IF current = "Dungeon" /\ direction = "east"
                /\ current \notin s.lit_rooms THEN FALSE
        ELSE IF is_exit_unlocked(s, current, direction) THEN TRUE
        ELSE lock_allows(s, current, direction)

-----------------------------------------------------------------------------
(* Combat trigger *)

\* variant: the defeated enemies are not consulted
maybe_start_room_combat_again(s) ==
    LET room_name == s.current_room
        room_enemies == World.room_enemies
    IN  IF room_name \notin DOMAIN room_enemies THEN s
        ELSE LET enemy_name == room_enemies[room_name]
             IN  IF enemy_name \notin DOMAIN World.enemies THEN s
                 ELSE LET enemy_def == World.enemies[enemy_name]
                          enemy == [name |-> enemy_name,
                                    hp |-> Get(enemy_def, "max_hp", 30),
                                    max_hp |-> Get(enemy_def, "max_hp", 30),
                                    attack_min |-> Get(enemy_def, "attack_min", 5),
                                    attack_max |-> Get(enemy_def, "attack_max", 10),
                                    xp_reward |-> Get(enemy_def, "xp_reward", 10)]
                      IN  [s EXCEPT !.in_combat = TRUE, !.enemy = enemy]

\* variant: starting a fight counts as a move
maybe_start_room_combat_costs_move(s) ==
    LET room_name == s.current_room
        room_enemies == World.room_enemies
    IN  IF room_name \notin DOMAIN room_enemies THEN s
        ELSE LET enemy_name == room_enemies[room_name]
             IN  IF enemy_name \in s.defeated_enemies THEN s
                 ELSE IF enemy_name \notin DOMAIN World.enemies THEN s
                 ELSE LET enemy_def == World.enemies[enemy_name]
                          enemy == [name |-> enemy_name,
                                    hp |-> Get(enemy_def, "max_hp", 30),
                                    max_hp |-> Get(enemy_def, "max_hp", 30),
                                    attack_min |-> Get(enemy_def, "attack_min", 5),
                                    attack_max |-> Get(enemy_def, "attack_max", 10),
                                    xp_reward |-> Get(enemy_def, "xp_reward", 10)]
                      IN  [s EXCEPT !.in_combat = TRUE, !.enemy = enemy,
                                    !.moves = @ + 1]

maybe_start_room_combat(s) ==
    LET room_name == s.current_room
        room_enemies == World.room_enemies
    IN  IF room_name \notin DOMAIN room_enemies THEN s
        ELSE LET enemy_name == room_enemies[room_name]
             IN  IF enemy_name \in s.defeated_enemies THEN s
                 ELSE IF enemy_name \notin DOMAIN World.enemies THEN s
                 ELSE LET enemy_def == World.enemies[enemy_name]
                          enemy == [name |-> enemy_name,
                                    hp |-> Get(enemy_def, "max_hp", 30),
                                    max_hp |-> Get(enemy_def, "max_hp", 30),
                                    attack_min |-> Get(enemy_def, "attack_min", 5),
                                    attack_max |-> Get(enemy_def, "attack_max", 10),
                                    xp_reward |-> Get(enemy_def, "xp_reward", 10)]
                      IN  [s EXCEPT !.in_combat = TRUE, !.enemy = enemy]

-----------------------------------------------------------------------------
(* Exploring-mode handlers.  Each returns the state (and room table) the   *)
(* Python handler leaves behind.                                           *)

Out(s, rms) == [state |-> s, rooms |-> rms]

move_player(s, rms, direction) ==
    IF s.in_combat THEN s
    ELSE IF ~ can_go(s, rms, direction) THEN s
    ELSE LET dest == rms[s.current_room].exits[direction]
         IN  maybe_start_room_combat(
                 [s EXCEPT !.current_room = dest, !.moves = @ + 1])

\* variant: the item picked up also stays in the room
get_item_copies(s, rms, item) ==
    IF s.in_combat THEN Out(s, rms)
    ELSE LET room == rms[s.current_room]
             items == Get(room, "items", <<>>)
         IN  IF item \notin Range(items) THEN Out(s, rms)
             ELSE Out([s EXCEPT !.inventory = Append(@, item), !.moves = @ + 1],
                      rms)

get_item(s, rms, item) ==
    IF s.in_combat THEN Out(s, rms)
    ELSE LET room == rms[s.current_room]
             items == Get(room, "items", <<>>)
         IN  IF item \notin Range(items) THEN Out(s, rms)
             ELSE Out([s EXCEPT !.inventory = Append(@, item), !.moves = @ + 1],
                      [rms EXCEPT ![s.current_room].items = Remove(items, item)])

drop_item(s, rms, item) ==
    IF s.in_combat THEN Out(s, rms)
    ELSE IF item \notin Range(s.inventory) THEN Out(s, rms)
    ELSE LET room == rms[s.current_room]
             items == Get(room, "items", <<>>)
             room2 == [k \in DOMAIN room \cup {"items"} |->
                          IF k = "items" THEN Append(items, item) ELSE room[k]]
         IN  Out([s EXCEPT !.inventory = Remove(@, item), !.moves = @ + 1],
                 [rms EXCEPT ![s.current_room] = room2])

talk_to(s, rms, npc_name) ==
    IF s.in_combat THEN s
    ELSE LET npcs == Get(rms[s.current_room], "npcs", <<>>)
         IN  IF \E i \in 1..Len(npcs) : Normalise(Get(npcs[i], "name", "")) = npc_name
             THEN [s EXCEPT !.moves = @ + 1]
             ELSE s

-----------------------------------------------------------------------------
(* Item effects *)

heal_player(s, amount) ==
    LET amt == Max(0, amount)
        before == s.health
    IN  [s EXCEPT !.health = Min(MaxHealth, before + amt)]

unlock_exit(s, from_room, direction) ==
    [s EXCEPT !.unlocked_exits = @ \cup {<<from_room, direction>>}]

\* variant: the use gives a move back
use_heal_health_refund(s, data) ==
    [heal_player(s, Get(data, "amount", 0)) EXCEPT !.moves = @ - 1]

\* lines 247-252
use_heal_health(s, data) ==
    [heal_player(s, Get(data, "amount", 0)) EXCEPT !.moves = @ + 1]

\* variant: a light that fizzles costs no move
use_light_room_free_fizzle(s, data) ==
    LET allowed_rooms == Get(data, "rooms", <<>>)
        room_name == s.current_room
    IN  IF allowed_rooms # <<>> /\ room_name \notin Range(allowed_rooms)
        THEN s
        ELSE [s EXCEPT !.lit_rooms = @ \cup {room_name}, !.moves = @ + 1]

\* lines 254-266
use_light_room(s, data) ==
    LET allowed_rooms == Get(data, "rooms", <<>>)
        room_name == s.current_room
    IN  IF allowed_rooms # <<>> /\ room_name \notin Range(allowed_rooms)
        THEN [s EXCEPT !.moves = @ + 1]
        ELSE [s EXCEPT !.lit_rooms = @ \cup {room_name}, !.moves = @ + 1]

\* lines 268-277
use_unlock_exit(s, data) ==
    LET from_room == Get(data, "from", "")
        direction == Get(data, "direction", "")
    IN  IF from_room = s.current_room
        THEN [unlock_exit(s, from_room, direction) EXCEPT !.moves = @ + 1]
        ELSE [s EXCEPT !.moves = @ + 1]

\* lines 279-284
use_shield(s, data) ==
    [s EXCEPT !.shield = Max(0, Get(data, "amount", 0)), !.moves = @ + 1]

use_item(s, item) ==
    IF item \notin Range(s.inventory) THEN s
    ELSE IF item \notin DOMAIN World.usable_items
    THEN [s EXCEPT !.moves = @ + 1]
    ELSE LET data == World.usable_items[item]
             effect == Get(data, "effect", "")
         IN  CASE effect = "heal_health" -> use_heal_health(s, data)
               [] effect = "light_room" -> use_light_room(s, data)
               [] effect = "unlock_exit" -> use_unlock_exit(s, data)
               [] effect = "shield" -> use_shield(s, data)
               [] OTHER -> [s EXCEPT !.moves = @ + 1]

-----------------------------------------------------------------------------
(* Combat *)

\* variant: the player's blow deals no damage
player_attack_harmless(s) == {0}

\* the values random.randint can return in player_attack
player_attack(s) ==
    LET bonus == Min(BonusCap, s.xp \div BonusStep)
    IN  (BaseMin + bonus)..(BaseMax + bonus)

\* the values random.randint can return in enemy_attack
enemy_attack(enemy) == enemy.attack_min..enemy.attack_max

\* variant: the shield keeps what it did not absorb
apply_enemy_damage_shield_remainder(s, damage) ==
    LET dmg0 == Max(0, damage)
        shield == s.shield
        blocked == IF shield > 0 THEN Min(shield, dmg0) ELSE 0
        dmg == dmg0 - blocked
        s1 == IF shield > 0 THEN [s EXCEPT !.shield = shield - blocked] ELSE s
    IN  [s1 EXCEPT !.health = Max(0, s.health - dmg)]

\* variant: the health is not floored at 0
apply_enemy_damage_unfloored(s, damage) ==
    LET dmg0 == Max(0, damage)
        shield == s.shield
        blocked == IF shield > 0 THEN Min(shield, dmg0) ELSE 0
        dmg == dmg0 - blocked
        s1 == IF shield > 0 THEN [s EXCEPT !.shield = 0] ELSE s
    IN  [s1 EXCEPT !.health = s.health - dmg]

apply_enemy_damage_to_player(s, damage) ==
    LET dmg0 == Max(0, damage)
        shield == s.shield
        blocked == IF shield > 0 THEN Min(shield, dmg0) ELSE 0
        dmg == dmg0 - blocked
        s1 == IF shield > 0 THEN [s EXCEPT !.shield = 0] ELSE s
    IN  [s1 EXCEPT !.health = Max(0, s.health - dmg)]

run_chance(room) ==
    IF Get(World.room_enemies, room, "") = "Ember King"
    THEN BossChance ELSE NormalChance

\* variant: the victory branch awards no XP
defeat_enemy_without_xp(s, enemy) ==
    [s EXCEPT !.defeated_enemies = @ \cup {enemy.name},
              !.in_combat = FALSE,
              !.enemy = None]

\* variant: the victory branch leaves the enemy record in place
defeat_enemy_keeps_record(s, enemy) ==
    [s EXCEPT !.xp = @ + enemy.xp_reward,
              !.defeated_enemies = @ \cup {enemy.name},
              !.in_combat = FALSE]

\* lines 334-346: the victory branch of an attack
defeat_enemy(s, enemy) ==
    [s EXCEPT !.xp = @ + enemy.xp_reward,
              !.defeated_enemies = @ \cup {enemy.name},
              !.in_combat = FALSE,
              !.enemy = None]

\* variant: the retreat prefers the west exit
retreat_west_first(s, rms, room) ==
    LET exits == Exits(rms, room)
    IN  IF "west" \in DOMAIN exits
        THEN [s EXCEPT !.current_room = exits["west"]]
        ELSE IF "south" \in DOMAIN exits
        THEN [s EXCEPT !.current_room = exits["south"]]
        ELSE s

\* lines 380-384: the retreat of a successful run
retreat(s, rms, room) ==
    LET exits == Exits(rms, room)
    IN  IF "south" \in DOMAIN exits
        THEN [s EXCEPT !.current_room = exits["south"]]
        ELSE IF "west" \in DOMAIN exits
        THEN [s EXCEPT !.current_room = exits["west"]]
        ELSE s

\* variant: the enemy strikes before the item takes effect
combat_use_retaliation_first(s, noun, edmg) ==
    IF noun = "" THEN s
    ELSE use_item(apply_enemy_damage_to_player(s, edmg), noun)

\* lines 354-366: the use branch of a combat turn
combat_use(s, noun, edmg) ==
    IF noun = "" THEN s
    ELSE LET s1 == use_item(s, noun)
         IN  IF s1.in_combat /\ s1.enemy # None
             THEN apply_enemy_damage_to_player(s1, edmg)
             ELSE s1

\* combat_turn with its random draws as arguments: dmg is the player's
\* attack roll, edmg the enemy's, roll the escape roll in hundredths
combat_turn(s, rms, verb, noun, dmg, edmg, roll) ==
    LET enemy == s.enemy
    IN  IF enemy = None THEN [s EXCEPT !.in_combat = FALSE]
        ELSE CASE verb = "attack" ->
                    LET hp == Max(0, enemy.hp - dmg)
                    IN  IF hp <= 0
                        THEN defeat_enemy([s EXCEPT !.enemy.hp = hp], s.enemy)
                        ELSE apply_enemy_damage_to_player(
                                 [s EXCEPT !.enemy.hp = hp], edmg)
               [] verb = "use" -> combat_use(s, noun, edmg)
               [] verb = "run" ->
                    LET room == s.current_room
                    IN  IF roll < run_chance(room)
                        THEN retreat([s EXCEPT !.in_combat = FALSE,
                                               !.enemy = None,
                                               !.moves = @ + 1], rms, room)
                        ELSE apply_enemy_damage_to_player(s, edmg)
               [] OTHER -> s

-----------------------------------------------------------------------------
(* Win/lose evaluator: the pair (finished, which message) *)

\* does the win condition hold of s (lines 408-418)
win_matches(win, s) ==
    LET wtype == Get(win, "type", "")
        has == "item" \in DOMAIN win /\ win.item \in Range(s.inventory)
        there == "room" \in DOMAIN win /\ s.current_room = win.room
    IN  \/ wtype = "has_item" /\ has
        \/ wtype = "reach_room" /\ there
        \/ wtype = "reach_room_with_item" /\ there /\ has

\* does the lose condition hold of s (lines 420-426)
lose_matches(lose, s) ==
    Get(lose, "type", "") = "max_moves" /\ s.moves >= Get(lose, "moves", 0)

\* variant: the win condition is tested before the health
check_win_lose_win_first(world, s) ==
    IF win_matches(world.win_condition, s) THEN <<TRUE, "win">>
    ELSE IF s.health <= 0 THEN <<TRUE, "lose_health">>
    ELSE IF lose_matches(world.lose_condition, s) THEN <<TRUE, "lose_moves">>
    ELSE <<FALSE, "">>

\* check_win_lose(world, state)
check_win_lose_world(world, s) ==
    IF s.health <= 0 THEN <<TRUE, "lose_health">>
    ELSE IF win_matches(world.win_condition, s) THEN <<TRUE, "win">>
    ELSE IF lose_matches(world.lose_condition, s) THEN <<TRUE, "lose_moves">>
    ELSE <<FALSE, "">>

\* the evaluator on the world of the session
check_win_lose(s) == check_win_lose_world(World, s)

-----------------------------------------------------------------------------
(* Persistence *)

\* variant: the record lacks the shield
save_game_without_shield(s, rms) ==
    [current_room |-> s.current_room,
     inventory |-> s.inventory,
     moves |-> s.moves,
     health |-> s.health,
     xp |-> s.xp,
     lit_rooms |-> SetToList(s.lit_rooms),
     defeated_enemies |-> SetToList(s.defeated_enemies),
     unlocked_exits |-> SetToList(s.unlocked_exits),
     rooms |-> rms]

\* the record json.dump writes
save_game(s, rms) ==
    [current_room |-> s.current_room,
     inventory |-> s.inventory,
     moves |-> s.moves,
     health |-> s.health,
     xp |-> s.xp,
     shield |-> s.shield,
     lit_rooms |-> SetToList(s.lit_rooms),
     defeated_enemies |-> SetToList(s.defeated_enemies),
     unlocked_exits |-> SetToList(s.unlocked_exits),
     rooms |-> rms]

load_game(file, s, rms) ==
    IF file = None THEN Out(s, rms)
    ELSE LET data == file
             pairs == Get(data, "unlocked_exits", <<>>)
             s1 == [current_room |-> Get(data, "current_room", World.start_room),
                    inventory |-> Get(data, "inventory", <<>>),
                    moves |-> Get(data, "moves", 0),
                    health |-> Get(data, "health", 100),
                    xp |-> Get(data, "xp", 0),
                    shield |-> Get(data, "shield", 0),
                    lit_rooms |-> Range(Get(data, "lit_rooms", <<>>)),
                    defeated_enemies |-> Range(Get(data, "defeated_enemies", <<>>)),
                    unlocked_exits |->
                        {<<pairs[i][1], pairs[i][2]>> :
                            i \in {j \in 1..Len(pairs) : Len(pairs[j]) = 2}},
                    in_combat |-> FALSE,
                    enemy |-> None]
         IN  Out(maybe_start_room_combat(s1), Get(data, "rooms", rms))

-----------------------------------------------------------------------------
(* The command loop of main() *)

\* the label of a command, with the random draws of its turn
Cmd(verb, noun) == [verb |-> verb, noun |-> noun, dmg |-> NA, edmg |-> NA, roll |-> NA]

\* lines 518-530
new_state ==
    [current_room |-> World.start_room,
     inventory |-> <<>>,
     moves |-> 0,
     health |-> 100,
     xp |-> 0,
     shield |-> 0,
     lit_rooms |-> {},
     defeated_enemies |-> {},
     unlocked_exits |-> {},
     in_combat |-> FALSE,
     enemy |-> None]

Init ==
    /\ state = maybe_start_room_combat(new_state)
    /\ rooms = World.rooms
    /\ save_file = None
    /\ pc = "loop"
    /\ last = Cmd("(start)", "")
    /\ prev = None
    /\ saved = None

Finished == check_win_lose(state)[1]

\* variant: a command is read without consulting the evaluator
Awaiting_unchecked == pc = "loop"

\* a command is read: the loop is running and the evaluator found no end
Awaiting == pc = "loop" /\ ~ Finished

\* one iteration that dispatched command c and left s2, rms2
Dispatch(c, s2, rms2) ==
    /\ state' = s2
    /\ rooms' = rms2
    /\ last' = c
    /\ prev' = [state |-> state, rooms |-> rooms]
    /\ pc' = pc

\* lines 542-545: the evaluator ends the session
Terminate ==
    /\ pc = "loop" /\ Finished
    /\ pc' = "done"
    /\ UNCHANGED <<state, rooms, save_file, last, prev, saved>>

\* lines 550-552
EmptyLine ==
    /\ Awaiting
    /\ Dispatch(Cmd("", ""), state, rooms)
    /\ UNCHANGED <<save_file, saved>>

\* lines 555-557, verb attack
CombatAttack ==
    /\ Awaiting /\ state.in_combat
    /\ \E dmg \in player_attack(state) :
         \E edmg \in (IF state.enemy.hp - dmg <= 0 THEN {NA}
                      ELSE enemy_attack(state.enemy)) :
            Dispatch([Cmd("attack", "") EXCEPT !.dmg = dmg, !.edmg = edmg],
                     combat_turn(state, rooms, "attack", "", dmg, edmg, NA),
                     rooms)
    /\ UNCHANGED <<save_file, saved>>

\* lines 555-557, verb use
CombatUse ==
    /\ Awaiting /\ state.in_combat
    /\ \E item \in ItemNames :
         \E edmg \in (IF item = "" THEN {NA} ELSE enemy_attack(state.enemy)) :
            Dispatch([Cmd("use", item) EXCEPT !.edmg = edmg],
                     combat_turn(state, rooms, "use", item, NA, edmg, NA),
                     rooms)
    /\ UNCHANGED <<save_file, saved>>

\* lines 555-557, verb run
CombatRun ==
    /\ Awaiting /\ state.in_combat
    /\ \E roll \in Rolls :
         \E edmg \in (IF roll < run_chance(state.current_room) THEN {NA}
                      ELSE enemy_attack(state.enemy)) :
            Dispatch([Cmd("run", "") EXCEPT !.roll = roll, !.edmg = edmg],
                     combat_turn(state, rooms, "run", "", NA, edmg, roll),
                     rooms)
    /\ UNCHANGED <<save_file, saved>>

\* variant: in combat, load reaches the Exploring-mode handler
CombatOther_dispatched ==
    /\ Awaiting /\ state.in_combat
    /\ \E c \in RejectedInCombat :
         LET o == IF c.verb = "load" THEN load_game(save_file, state, rooms)
                  ELSE Out(state, rooms)
         IN  Dispatch(Cmd(c.verb, c.noun), o.state, o.rooms)
    /\ UNCHANGED <<save_file, saved>>

\* lines 555-557, any other verb
CombatOther ==
    /\ Awaiting /\ state.in_combat
    /\ \E c \in RejectedInCombat :
         Dispatch(Cmd(c.verb, c.noun),
                  combat_turn(state, rooms, c.verb, c.noun, NA, NA, NA), rooms)
    /\ UNCHANGED <<save_file, saved>>

\* lines 567-571 and 605
Go ==
    /\ Awaiting /\ ~ state.in_combat
    /\ \E d \in Directions :
         LET s1 == IF d = "" THEN state ELSE move_player(state, rooms, d)
         IN  Dispatch(Cmd("go", d), maybe_start_room_combat(s1), rooms)
    /\ UNCHANGED <<save_file, saved>>

\* lines 572-576 and 605
GetCmd ==
    /\ Awaiting /\ ~ state.in_combat
    /\ \E i \in ItemNames :
         LET o == IF i = "" THEN Out(state, rooms) ELSE get_item(state, rooms, i)
         IN  Dispatch(Cmd("get", i), maybe_start_room_combat(o.state), o.rooms)
    /\ UNCHANGED <<save_file, saved>>

\* lines 577-581 and 605
DropCmd ==
    /\ Awaiting /\ ~ state.in_combat
    /\ \E i \in ItemNames :
         LET o == IF i = "" THEN Out(state, rooms) ELSE drop_item(state, rooms, i)
         IN  Dispatch(Cmd("drop", i), maybe_start_room_combat(o.state), o.rooms)
    /\ UNCHANGED <<save_file, saved>>

\* lines 582-586 and 605
Talk ==
    /\ Awaiting /\ ~ state.in_combat
    /\ \E n \in NpcNames :
         LET s1 == IF n = "" THEN state ELSE talk_to(state, rooms, n)
         IN  Dispatch(Cmd("talk", n), maybe_start_room_combat(s1), rooms)
    /\ UNCHANGED <<save_file, saved>>

\* lines 587-593 and 605
Use ==
    /\ Awaiting /\ ~ state.in_combat
    /\ \E i \in ItemNames :
         LET s1 == IF i = "" THEN state
                   ELSE maybe_start_room_combat(use_item(state, i))
         IN  Dispatch(Cmd("use", i), maybe_start_room_combat(s1), rooms)
    /\ UNCHANGED <<save_file, saved>>

\* lines 594-595 and 605
Save ==
    /\ Awaiting /\ ~ state.in_combat
    /\ save_file' = save_game(state, rooms)
    /\ saved' = [state |-> state, rooms |-> rooms]
    /\ Dispatch(Cmd("save", ""), maybe_start_room_combat(state), rooms)

\* lines 596-597 and 605
Load ==
    /\ Awaiting /\ ~ state.in_combat
    /\ LET o == load_game(save_file, state, rooms)
       IN  Dispatch(Cmd("load", ""), maybe_start_room_combat(o.state), o.rooms)
    /\ UNCHANGED <<save_file, saved>>

\* lines 559-566, 601-602 and 605: help, look, inventory, health, unknown verbs
Other ==
    /\ Awaiting /\ ~ state.in_combat
    /\ \E v \in OtherVerbs :
         Dispatch(Cmd(v, ""), maybe_start_room_combat(state), rooms)
    /\ UNCHANGED <<save_file, saved>>

\* lines 598-600
Quit ==
    /\ Awaiting /\ ~ state.in_combat
    /\ pc' = "done"
    /\ state' = state /\ rooms' = rooms
    /\ last' = Cmd("quit", "")
    /\ prev' = [state |-> state, rooms |-> rooms]
    /\ UNCHANGED <<save_file, saved>>

Next ==
    \/ Terminate
    \/ EmptyLine
    \/ CombatAttack
    \/ CombatUse
    \/ CombatRun
    \/ CombatOther
    \/ Go
    \/ GetCmd
    \/ DropCmd
    \/ Talk
    \/ Use
    \/ Save
    \/ Load
    \/ Other
    \/ Quit

Spec == Init /\ [][Next]_vars

-----------------------------------------------------------------------------
(* apply_enemy_damage_to_player on its own: a fight in the Pit entered     *)
(* with any health and shield, and the enemy striking for any damage up to *)
(* MaxDamage.                                                              *)

HealthInputs == {0, 1, 4, 5, 6, 50, 100}

InitDamage ==
    /\ \E h \in HealthInputs, sh \in 0..MaxShield :
         state = maybe_start_room_combat(
                     [new_state EXCEPT !.current_room = "Pit", !.moves = 1,
                                       !.health = h, !.shield = sh])
    /\ rooms = World.rooms
    /\ save_file = None
    /\ pc = "loop"
    /\ last = Cmd("(start)", "")
    /\ prev = None
    /\ saved = None

Retaliation ==
    /\ \E d \in 0..MaxDamage :
         /\ state' = apply_enemy_damage_to_player(state, d)
         /\ last' = [Cmd("retaliation", "") EXCEPT !.edmg = d]
    /\ prev' = [state |-> state, rooms |-> rooms]
    /\ UNCHANGED <<rooms, save_file, pc, saved>>

SpecDamage == InitDamage /\ [][Retaliation]_vars

-----------------------------------------------------------------------------
(* check_win_lose on its own: any health, moves, room and inventory,       *)
(* evaluated under every variant of the win and lose conditions.           *)

WinConditions ==
    {[type |-> "has_item", item |-> "amulet"],
     [type |-> "reach_room", room |-> "Vault"],
     [type |-> "reach_room_with_item", room |-> "Vault", item |-> "amulet"],
     [type |-> "collect_all", item |-> "amulet"],
     [text |-> "You win!"]}

LoseConditions ==
    {[type |-> "max_moves", moves |-> MoveLimit],
     [type |-> "max_moves"],
     [type |-> "timeout", moves |-> MoveLimit],
     [text |-> "You lose!"]}

EvalHealth == {0, 1, 100}

EvalRooms == {"Dungeon", "Vault"}

EvalInventories == {<<>>, <<"amulet">>, <<"torch", "amulet">>, <<"torch">>}

InitEval ==
    /\ \E h \in EvalHealth, m \in 0..(MoveLimit + 1), r \in EvalRooms,
          inv \in EvalInventories :
         state = [new_state EXCEPT !.health = h, !.moves = m,
                                   !.current_room = r, !.inventory = inv]
    /\ rooms = World.rooms
    /\ save_file = None
    /\ pc = "loop"
    /\ last = Cmd("(start)", "")
    /\ prev = None
    /\ saved = None

\* one call of check_win_lose(world, state): it assigns nothing
Evaluate ==
    /\ \E win \in WinConditions, lose \in LoseConditions :
         LET world == [win_condition |-> win, lose_condition |-> lose]
         IN  last' = [verb |-> "evaluate", win |-> win, lose |-> lose,
                      result |-> check_win_lose_world(world, state)]
    /\ prev' = [state |-> state, rooms |-> rooms]
    /\ UNCHANGED <<state, rooms, save_file, pc, saved>>

SpecEval == InitEval /\ [][Evaluate]_vars

-----------------------------------------------------------------------------
(* A fight on its own: the player stands in the Pit in combat with an      *)
(* enemy of any remaining HP up to MaxEnemyHP and any of three attack      *)
(* ranges, and every command is attack.  The loop of main() keeps reading  *)
(* commands, so the attack and the evaluator's check are taken whenever    *)
(* they stay possible.                                                     *)

FightHealth == {1, 50, 100}

FightXp == {0, 150}

FightAttacks == {<<0, 0>>, <<5, 6>>, <<40, 41>>}

InitFight ==
    /\ \E hp \in 1..MaxEnemyHP, h \in FightHealth, xp \in FightXp,
          a \in FightAttacks :
         state = [new_state EXCEPT
                    !.current_room = "Pit", !.moves = 1,
                    !.health = h, !.xp = xp,
                    !.in_combat = TRUE,
                    !.enemy = [name |-> "Rat", hp |-> hp, max_hp |-> MaxEnemyHP,
                               attack_min |-> a[1], attack_max |-> a[2],
                               xp_reward |-> 25]]
    /\ rooms = World.rooms
    /\ save_file = None
    /\ pc = "loop"
    /\ last = Cmd("(start)", "")
    /\ prev = None
    /\ saved = None

NextFight == Terminate \/ CombatAttack

SpecFight ==
    InitFight /\ [][NextFight]_vars
    /\ WF_vars(Terminate) /\ WF_vars(CombatAttack)

-----------------------------------------------------------------------------
(* Properties *)

TypeOK ==
    /\ state.current_room \in RoomNames
    /\ state.moves \in Nat
    /\ state.in_combat \in BOOLEAN
    /\ pc \in {"loop", "done"}

\* the latest iteration dispatched an Exploring-mode command with this verb
Explored(verb) == last.verb = verb /\ ~ prev.state.in_combat

\* the latest iteration dispatched a combat command with this verb
Fought(verb) == last.verb = verb /\ prev.state.in_combat

\* the latest iteration loaded an existing save file
Loaded == Explored("load") /\ save_file # None

\* C1: in every reachable state the player's health is an integer with
\* 0 <= health <= 100, after heals, retaliations and loads alike.
C1_HealthInRange == state.health \in 0..MaxHealth

\* a retaliation larger than the remaining health has floored it at 0
C1_Witness ==
    /\ last.edmg # NA
    /\ prev.state.shield = 0
    /\ prev.state.health > 0
    /\ prev.state.health - last.edmg < 0
    /\ state.health = 0

SavedFields ==
    {"current_room", "inventory", "moves", "health", "xp", "shield",
     "lit_rooms", "defeated_enemies", "unlocked_exits"}

ItemsOf(rms, r) == Get(rms[r], "items", <<>>)

\* C2: a load of the file written by the latest save restores
\* current_room, inventory, moves, health, xp, shield, lit_rooms,
\* defeated_enemies, unlocked_exits and every room's item list exactly as
\* they were at that save, whatever commands came in between.
C2_SaveLoadRoundTrip ==
    Loaded =>
        /\ \A f \in SavedFields : state[f] = saved.state[f]
        /\ DOMAIN rooms = DOMAIN saved.rooms
        /\ \A r \in DOMAIN rooms : ItemsOf(rooms, r) = ItemsOf(saved.rooms, r)

\* a load after commands that changed the inventory, the moves and the rooms
C2_Witness ==
    /\ Loaded
    /\ saved.state.inventory # <<>>
    /\ prev.state.moves > saved.state.moves
    /\ prev.state.inventory # saved.state.inventory
    /\ prev.rooms # saved.rooms

\* C3: in_combat is true exactly when an active enemy record exists, and
\* while in_combat is true the active enemy's HP is greater than 0.
C3_CombatRecord ==
    /\ state.in_combat <=> state.enemy # None
    /\ state.in_combat => state.enemy.hp > 0

\* an attack has brought the enemy's HP to 0 and the fight is over
C3_Witness ==
    /\ Fought("attack")
    /\ prev.state.enemy.hp - last.dmg <= 0
    /\ ~ state.in_combat
    /\ state.enemy = None

\* the latest iteration dispatched a command at all
Acted == last.verb # "(start)"

\* C4: a go whose direction is not an exit of the current room leaves the
\* whole state unchanged, combat fields and room item lists included.
C4_NoExitNoChange ==
    (/\ last.verb = "go"
     /\ last.noun # ""
     /\ last.noun \notin DOMAIN Exits(prev.rooms, prev.state.current_room))
    => state = prev.state /\ rooms = prev.rooms

\* the item a lock asks for, or its declared equivalent, is carried
Carries(s, item) ==
    \/ item \in Range(s.inventory)
    \/ item = "lantern" /\ "torch" \in Range(s.inventory)

\* the darkness rule, not a lock, blocks this exit
DarkBlocked(s, direction) ==
    s.current_room = "Dungeon" /\ direction = "east" /\ "Dungeon" \notin s.lit_rooms

\* every locked exit of the current room whose item is carried can be taken
LockOpensWithItem ==
    \A d \in DOMAIN Exits(rooms, state.current_room) :
        LET lock == is_exit_locked(state.current_room, d)
        IN  (lock # None /\ Carries(state, lock.requires_item))
            => can_go(state, rooms, d) \/ DarkBlocked(state, d)

\* every recorded exit of the current room can be taken
RecordedExitsBypassed ==
    \A p \in state.unlocked_exits :
        (p[1] = state.current_room /\ p[2] \in DOMAIN Exits(rooms, p[1]))
        => can_go(state, rooms, p[2]) \/ DarkBlocked(state, p[2])

\* C5 as stated: the lock check allows the move whenever the required item
\* or its equivalent is carried, and a pair recorded in unlocked_exits
\* stays recorded and bypassed whatever command follows.
C5_RecordedForever ==
    /\ LockOpensWithItem
    /\ RecordedExitsBypassed
    /\ Acted => prev.state.unlocked_exits \subseteq state.unlocked_exits

\* C5 amended: as C5, but a pair stays recorded across every command other
\* than load; a load replaces unlocked_exits by the set of the save file.
C5_RecordedUntilLoad ==
    /\ LockOpensWithItem
    /\ RecordedExitsBypassed
    /\ Acted =>
          IF Loaded
          THEN state.unlocked_exits = saved.state.unlocked_exits
          ELSE prev.state.unlocked_exits \subseteq state.unlocked_exits

\* the key has been dropped after unlocking: the exit is still recorded
\* and can be taken without the key
C5_Witness ==
    /\ Explored("drop") /\ last.noun = "iron_key"
    /\ "iron_key" \notin Range(state.inventory)
    /\ state.current_room = "Dungeon"
    /\ <<"Dungeon", "north">> \in state.unlocked_exits
    /\ can_go(state, rooms, "north")

\* C6: in_combat implies that the active enemy's name is not in
\* defeated_enemies.
C6_NoFightWithDefeated ==
    state.in_combat => state.enemy.name \notin state.defeated_enemies

\* the player has walked back into the room of a defeated enemy: no fight
C6_Witness ==
    /\ Explored("go")
    /\ state.current_room # prev.state.current_room
    /\ state.current_room \in DOMAIN World.room_enemies
    /\ World.room_enemies[state.current_room] \in state.defeated_enemies
    /\ ~ state.in_combat

\* C7 as stated: the moves counter never decreases from one state to the
\* next, whatever the command.
C7_MovesNeverDecrease == Acted => state.moves >= prev.state.moves

\* C7 amended: the moves counter never decreases across a command other
\* than load; a load sets it to the value of the save file.
C7_MovesDecreaseOnlyByLoad ==
    Acted =>
        IF Loaded THEN state.moves = saved.state.moves
        ELSE state.moves >= prev.state.moves

\* a load has lowered the moves counter
C7_Witness == Loaded /\ state.moves < prev.state.moves

\* C8 as stated: every use of a named item adds exactly one to moves.
C8_UseCostsOneMove ==
    (last.verb = "use" /\ last.noun # "")
    => state.moves = prev.state.moves + 1

\* C8 amended: a use of an item of the inventory adds exactly one to moves
\* on every branch; a use of an item that is not in the inventory leaves
\* moves unchanged.
C8_UseOfHeldItemCostsOneMove ==
    (last.verb = "use" /\ last.noun # "")
    => IF last.noun \in Range(prev.state.inventory)
       THEN state.moves = prev.state.moves + 1
       ELSE state.moves = prev.state.moves

\* the torch has been used outside the Dungeon: the light fizzles and the
\* move is counted
C8_Witness ==
    /\ last.verb = "use" /\ last.noun = "torch"
    /\ "torch" \in Range(prev.state.inventory)
    /\ prev.state.current_room # "Dungeon"
    /\ state.lit_rooms = prev.state.lit_rooms
    /\ state.moves = prev.state.moves + 1

\* the latest command was an attack that brought the enemy's HP to 0
Killed == Fought("attack") /\ prev.state.enemy.hp - last.dmg <= 0

\* C9: the attack that brings the enemy's HP to 0 adds the enemy's
\* xp_reward to xp, adds its name to defeated_enemies, ends the fight and
\* clears the enemy record, and leaves health and shield as they were.
C9_Victory ==
    Killed =>
        LET name == prev.state.enemy.name
        IN  /\ state.xp = prev.state.xp + World.enemies[name].xp_reward
            /\ state.defeated_enemies = prev.state.defeated_enemies \cup {name}
            /\ ~ state.in_combat
            /\ state.enemy = None
            /\ state.health = prev.state.health
            /\ state.shield = prev.state.shield

\* a wounded player has killed the Rat
C9_Witness ==
    /\ Killed
    /\ prev.state.health < MaxHealth
    /\ prev.state.enemy.name = "Rat"
    /\ state.xp = prev.state.xp + 25
    /\ "Rat" \in state.defeated_enemies

\* C10: a retaliation of damage d against shield s and health h leaves the
\* shield at 0 and the health at max(0, h - (d - min(s, d))); the shield is
\* never negative.
C10_ShieldThenHealth ==
    /\ state.shield >= 0
    /\ last.verb = "retaliation" =>
          LET s == prev.state.shield
              d == last.edmg
              h == prev.state.health
          IN  /\ state.shield = 0
              /\ state.health = Max(0, h - (d - Min(s, d)))

\* shield 10 against damage 15: the health drops by exactly 5
C10_Witness ==
    /\ last.verb = "retaliation"
    /\ prev.state.shield = 10 /\ last.edmg = 15
    /\ state.health = prev.state.health - 5
    /\ state.shield = 0

\* a shield larger than the damage is still used up
C10_WitnessLargeShield ==
    /\ last.verb = "retaliation"
    /\ prev.state.shield > last.edmg /\ last.edmg > 0
    /\ state.health = prev.state.health
    /\ state.shield = 0

\* the shield is never negative in a session either
ShieldNonNegative == state.shield >= 0

\* the latest command was a run whose escape roll succeeded
Escaped == Fought("run") /\ last.roll < run_chance(prev.state.current_room)

\* the room a successful run from this room ends in
RetreatRoom(rms, room) ==
    LET exits == Exits(rms, room)
    IN  IF "south" \in DOMAIN exits THEN exits["south"]
        ELSE IF "west" \in DOMAIN exits THEN exits["west"]
        ELSE room

\* C11: a run whose escape roll succeeds ends the fight, clears the enemy
\* record, adds exactly one to moves and puts the player in the room behind
\* the south exit of the room of the fight, else behind its west exit, else
\* leaves the player there; a run whose roll fails leaves the player in
\* combat in the same room and applies exactly one retaliation.
C11_Run ==
    Fought("run") =>
        IF Escaped
        THEN /\ ~ state.in_combat
             /\ state.enemy = None
             /\ state.moves = prev.state.moves + 1
             /\ state.current_room = RetreatRoom(prev.rooms, prev.state.current_room)
             /\ state.health = prev.state.health
             /\ state.shield = prev.state.shield
        ELSE /\ state.in_combat
             /\ state.enemy = prev.state.enemy
             /\ state.current_room = prev.state.current_room
             /\ state.moves = prev.state.moves
             /\ state.shield = 0
             /\ state.health =
                    Max(0, prev.state.health
                           - (last.edmg - Min(prev.state.shield, last.edmg)))

\* a run from the Crypt, which has a south and a west exit, ends in the
\* room behind the south exit
C11_Witness ==
    /\ Escaped
    /\ prev.state.current_room = "Crypt"
    /\ state.current_room = "Vault"
    /\ state.moves = prev.state.moves + 1
    /\ ~ state.in_combat

\* a run from the Den, which has only a west exit, ends behind that exit
C11_WitnessWest ==
    /\ Escaped
    /\ prev.state.current_room = "Den"
    /\ state.current_room = "Pit"

\* a run from the Pit, which has neither exit, leaves the player there
C11_WitnessStay ==
    /\ Escaped
    /\ prev.state.current_room = "Pit"
    /\ state.current_room = "Pit"

\* a run whose roll failed: the enemy has struck once
C11_WitnessBlocked ==
    /\ Fought("run") /\ ~ Escaped
    /\ state.in_combat
    /\ state.health = prev.state.health - last.edmg

\* the win condition holds of s, as the specification words it
WinHolds(win, s) ==
    LET type == IF "type" \in DOMAIN win THEN win.type ELSE ""
    IN  CASE type = "has_item" -> win.item \in Range(s.inventory)
          [] type = "reach_room" -> s.current_room = win.room
          [] type = "reach_room_with_item" ->
                s.current_room = win.room /\ win.item \in Range(s.inventory)
          [] OTHER -> FALSE

\* the move limit of the lose condition is reached
LimitReached(lose, s) ==
    /\ "type" \in DOMAIN lose /\ lose.type = "max_moves"
    /\ s.moves >= (IF "moves" \in DOMAIN lose THEN lose.moves ELSE 0)

\* C12: the evaluator decides by first match and changes nothing:
\* health <= 0 is a loss even if the win condition holds; otherwise the
\* win condition (has-item, reach-room, reach-room-with-item) is a win even
\* if the move limit is reached; otherwise max-moves with moves >= limit
\* is a loss; otherwise the game continues.
C12_EvaluationOrder ==
    last.verb = "evaluate" =>
        /\ state = prev.state /\ rooms = prev.rooms
        /\ last.result =
              IF state.health <= 0 THEN <<TRUE, "lose_health">>
              ELSE IF WinHolds(last.win, state) THEN <<TRUE, "win">>
              ELSE IF LimitReached(last.lose, state) THEN <<TRUE, "lose_moves">>
              ELSE <<FALSE, "">>

\* health 0 in the target room: the evaluator reports the loss
C12_Witness ==
    /\ last.verb = "evaluate"
    /\ state.health = 0
    /\ WinHolds(last.win, state)
    /\ last.result = <<TRUE, "lose_health">>

\* the win condition and the move limit both hold: the evaluator reports
\* the win
C12_WitnessWinAtLimit ==
    /\ last.verb = "evaluate"
    /\ state.health > 0
    /\ Get(last.win, "type", "") = "reach_room_with_item"
    /\ WinHolds(last.win, state)
    /\ LimitReached(last.lose, state)
    /\ last.result = <<TRUE, "win">>

\* nothing matches: the game continues
C12_WitnessContinue ==
    /\ last.verb = "evaluate"
    /\ Get(last.win, "type", "") = "reach_room_with_item"
    /\ state.current_room = "Vault"
    /\ "amulet" \notin Range(state.inventory)
    /\ last.result = <<FALSE, "">>

\* C13: the evaluator is consulted after every dispatched command, in
\* either mode, before the next command is read: from a state where a
\* terminal condition holds, or where the session has ended, the only step
\* is the end of the session, and it changes neither the state nor the
\* rooms.
C13_EndsAtCheck ==
    [][(check_win_lose(state)[1] \/ pc = "done")
        => (pc' = "done" /\ state' = state /\ rooms' = rooms
            /\ save_file' = save_file)]_vars

\* the session has ended at the check that followed the move into the
\* target room
C13_Witness ==
    /\ pc = "done"
    /\ Explored("go")
    /\ prev.state.current_room # "Vault"
    /\ state.current_room = "Vault"
    /\ check_win_lose(state) = <<TRUE, "win">>

\* the session has ended at the check that followed a retaliation in combat
C13_WitnessCombat ==
    /\ pc = "done"
    /\ prev.state.in_combat
    /\ prev.state.health > 0
    /\ state.health = 0
    /\ state.in_combat
    /\ check_win_lose(state) = <<TRUE, "lose_health">>

CombatVerbs == {"attack", "use", "run"}

\* C14: while in_combat is true, every command whose verb is not attack,
\* use or run is rejected and leaves the whole state and the rooms
\* unchanged; the session goes on, still in combat with the same enemy.
C14_RejectedInCombat ==
    (Acted /\ prev.state.in_combat /\ last.verb \notin CombatVerbs)
    => /\ state = prev.state
       /\ rooms = prev.rooms
       /\ state.in_combat
       /\ pc = "loop" \/ check_win_lose(state)[1]

\* a go towards an open exit has been refused in combat
C14_Witness ==
    /\ Fought("go") /\ last.noun = "west"
    /\ prev.state.current_room = "Den"
    /\ state = prev.state
    /\ state.in_combat

\* a get of an item lying in the room of the fight has been refused
C14_WitnessGet ==
    /\ Fought("get") /\ last.noun = "coin"
    /\ "coin" \in Range(ItemsOf(prev.rooms, prev.state.current_room))
    /\ state.inventory = prev.state.inventory
    /\ rooms = prev.rooms

\* a quit has been refused in combat: the session goes on
C14_WitnessQuit == Fought("quit") /\ pc = "loop" /\ state.in_combat

\* a load has been refused in combat although a save file exists
C14_WitnessLoad ==
    /\ Fought("load")
    /\ save_file # None
    /\ saved.state # prev.state
    /\ state = prev.state

\* the current room of s is bound to an enemy that is not defeated
BoundEnemy(s) ==
    /\ s.current_room \in DOMAIN World.room_enemies
    /\ World.room_enemies[s.current_room] \notin s.defeated_enemies

\* the current room of s is bound to an enemy that the world defines and
\* that is not defeated
LiveEnemy(s) ==
    /\ BoundEnemy(s)
    /\ World.room_enemies[s.current_room] \in DOMAIN World.enemies

\* the latest command was a go through an exit that access control allowed
Moved ==
    /\ Explored("go") /\ last.noun # ""
    /\ can_go(prev.state, prev.rooms, last.noun)

\* the latest command was a use of a named item in Exploring mode
UsedExploring == Explored("use") /\ last.noun # ""

\* the fight with the enemy of the current room has just started
FreshFight ==
    /\ state.in_combat
    /\ state.enemy # None
    /\ state.enemy.name = World.room_enemies[state.current_room]
    /\ state.enemy.hp = World.enemies[state.enemy.name].max_hp
    /\ state.enemy.max_hp = state.enemy.hp

\* the moves counter holds what the command alone accounts for
MovesOfCommandOnly ==
    /\ Moved => state.moves = prev.state.moves + 1
    /\ Loaded => state.moves = saved.state.moves
    /\ UsedExploring =>
          state.moves = prev.state.moves
                        + (IF last.noun \in Range(prev.state.inventory)
                           THEN 1 ELSE 0)

\* C15 as stated: after every successful move, load of an existing save
\* and item use in Exploring mode, a current room bound to an enemy that is
\* not in defeated_enemies means a fight at full enemy HP, started without
\* a change of moves.
C15_FightWithBoundEnemy ==
    (Moved \/ Loaded \/ UsedExploring)
    => /\ BoundEnemy(state) => FreshFight
       /\ MovesOfCommandOnly

\* C15 amended: as C15, for a current room bound to an enemy that the
\* world defines; a binding that names an enemy without a definition starts
\* no fight.
C15_FightWithDefinedEnemy ==
    (Moved \/ Loaded \/ UsedExploring)
    => /\ LiveEnemy(state) => FreshFight
       /\ (BoundEnemy(state) /\ ~ LiveEnemy(state)) => ~ state.in_combat
       /\ MovesOfCommandOnly

\* a move into the Pit has started the fight with the Rat at full HP
C15_Witness ==
    /\ Moved
    /\ state.current_room = "Pit"
    /\ LiveEnemy(state)
    /\ FreshFight
    /\ state.enemy.hp = 9
    /\ state.moves = prev.state.moves + 1

\* a use after an escape that left the player in the room of the fight
\* has started the fight again
C15_WitnessUse ==
    /\ UsedExploring
    /\ ~ prev.state.in_combat
    /\ LiveEnemy(state)
    /\ FreshFight

\* a load has put the player back into a room with a live enemy
C15_WitnessLoad == Loaded /\ LiveEnemy(state) /\ FreshFight

\* a move into the Vault, bound to an enemy without a definition
C15_WitnessUndefined ==
    /\ Moved
    /\ BoundEnemy(state) /\ ~ LiveEnemy(state)
    /\ ~ state.in_combat

\* the latest command was a use of a named item in combat
UsedInCombat == Fought("use") /\ last.noun # ""

\* the latest command used this item, which the player held
UsedHeld(item) == last.noun = item /\ item \in Range(prev.state.inventory)

\* C16: in combat, use resolves the item's effect first and then exactly
\* one retaliation in the same turn: a shield granted by the item absorbs
\* that retaliation, a heal is clamped to 100 before the damage is
\* subtracted, and the fight goes on with the same enemy.
C16_UseThenRetaliation ==
    UsedInCombat =>
        LET h == prev.state.health
            d == last.edmg
            healed == IF UsedHeld("ration") THEN Min(MaxHealth, h + 30) ELSE h
            s == IF UsedHeld("amulet") THEN 10 ELSE prev.state.shield
        IN  /\ d \in enemy_attack(prev.state.enemy)
            /\ state.health = Max(0, healed - (d - Min(s, d)))
            /\ state.shield = 0
            /\ state.in_combat
            /\ state.enemy = prev.state.enemy
            /\ state.current_room = prev.state.current_room

\* the amulet used in combat has absorbed 10 of the blow that followed
C16_Witness ==
    /\ UsedInCombat /\ UsedHeld("amulet")
    /\ prev.state.shield = 0
    /\ state.health = prev.state.health - (last.edmg - 10)
    /\ state.shield = 0

\* a ration used in combat: the heal is clamped before the blow lands
C16_WitnessHeal ==
    /\ UsedInCombat /\ UsedHeld("ration")
    /\ prev.state.health + 30 > MaxHealth
    /\ state.health = MaxHealth - last.edmg

\* a ration used by a wounded player in combat
C16_WitnessHealWounded ==
    /\ UsedInCombat /\ UsedHeld("ration")
    /\ prev.state.health < MaxHealth
    /\ state.health = prev.state.health + 30 - last.edmg

\* the fight is over: the enemy is recorded as defeated
FightWon ==
    /\ ~ state.in_combat
    /\ state.enemy = None
    /\ prev.state.enemy.name \in state.defeated_enemies

\* the fight is over: the player is dead and the session has ended
FightLost ==
    /\ state.health = 0
    /\ pc = "done"
    /\ check_win_lose(state) = <<TRUE, "lose_health">>

\* every attack takes at least 8, or all that is left, off the enemy's HP
AttackLowersHP ==
    Fought("attack") =>
        LET before == prev.state.enemy.hp
            after == IF state.enemy = None THEN 0 ELSE state.enemy.hp
        IN  /\ last.dmg >= BaseMin
            /\ before - after = Min(before, last.dmg)
            /\ before - after >= Min(before, BaseMin)

\* C17: every fight ends if the player keeps attacking: from a state in
\* combat where a command is awaited, attack after attack leads to the
\* enemy's HP at 0 (the enemy in defeated_enemies, in_combat false) or to
\* the player's health at 0 and the session ended in a loss; each attack
\* lowers the enemy's HP by at least 8, or by what is left of it.
C17_FightEnds ==
    /\ [] AttackLowersHP
    /\ (state.in_combat /\ Awaiting) ~> (FightWon \/ FightLost)

\* the enemy has fallen to the third attack in a row
C17_Witness ==
    /\ FightWon
    /\ Fought("attack")
    /\ prev.state.enemy.hp <= prev.state.enemy.max_hp - 2 * BaseMin
    /\ prev.state.enemy.hp > 0

\* the player has fallen while attacking
C17_WitnessLost ==
    /\ FightLost
    /\ Fought("attack")
    /\ state.in_combat
    /\ state.enemy.hp > 0

\* the room changed through an exit of the previous room that access
\* control allowed in the state before
ThroughAllowedExit ==
    \E d \in DOMAIN Exits(prev.rooms, prev.state.current_room) :
        /\ Exits(prev.rooms, prev.state.current_room)[d] = state.current_room
        /\ can_go(prev.state, prev.rooms, d)

\* C18: whenever current_room changes other than by load, the change goes
\* through an exit of the previous room that can_go allows in that state;
\* this covers the relocation of a successful run.
C18_OnlyThroughAllowedExits ==
    (/\ Acted
     /\ last.verb # "load"
     /\ state.current_room # prev.state.current_room)
    => ThroughAllowedExit

\* C19: whenever a command is awaited with in_combat false, the current
\* room has no bound enemy that is both defined and not defeated.
C19_NoExploringBesideLiveEnemy ==
    (Awaiting /\ ~ state.in_combat) => ~ LiveEnemy(state)

\* the occurrences of x in a list
Count(seq, x) == Cardinality({i \in 1..Len(seq) : seq[i] = x})

RECURSIVE CountInRooms(_, _, _)
\* the occurrences of x in the item lists of the rooms rs
CountInRooms(rms, rs, x) ==
    IF rs = {} THEN 0
    ELSE LET r == CHOOSE q \in rs : TRUE
         IN  Count(ItemsOf(rms, r), x) + CountInRooms(rms, rs \ {r}, x)

\* the occurrences of x in the inventory and in all rooms together
Total(s, rms, x) == Count(s.inventory, x) + CountInRooms(rms, DOMAIN rms, x)

\* every item name that occurs anywhere now or in the initial world
ItemUniverse ==
    Range(state.inventory)
    \cup UNION {Range(ItemsOf(rooms, r)) : r \in DOMAIN rooms}
    \cup UNION {Range(ItemsOf(World.rooms, r)) : r \in DOMAIN World.rooms}

\* the item lists of all rooms but r are as before
OtherRoomsKept(r) ==
    \A q \in DOMAIN rooms \ {r} : ItemsOf(rooms, q) = ItemsOf(prev.rooms, q)

\* the latest command was a get of an item lying in the room
Got ==
    /\ Explored("get") /\ last.noun # ""
    /\ last.noun \in Range(ItemsOf(prev.rooms, prev.state.current_room))

\* the latest command was a drop of an item of the inventory
Dropped ==
    /\ Explored("drop") /\ last.noun # ""
    /\ last.noun \in Range(prev.state.inventory)

\* C20: items are conserved: the multiset of item names over all room
\* item lists plus the inventory is that of the initial world in every
\* state; get moves one occurrence from the current room to the end of the
\* inventory, drop moves one occurrence from the inventory to the current
\* room, a load restores the saved distribution, and every other command
\* leaves inventory and item lists alone, so a used item stays held.
C20_ItemsConserved ==
    /\ DOMAIN rooms = DOMAIN World.rooms
    /\ \A x \in ItemUniverse :
          Total(state, rooms, x) = Total(new_state, World.rooms, x)
    /\ Acted =>
          LET r == prev.state.current_room
              x == last.noun
          IN  CASE Got ->
                     /\ state.inventory = Append(prev.state.inventory, x)
                     /\ Count(ItemsOf(rooms, r), x)
                          = Count(ItemsOf(prev.rooms, r), x) - 1
                     /\ \A y \in ItemUniverse \ {x} :
                          Count(ItemsOf(rooms, r), y) = Count(ItemsOf(prev.rooms, r), y)
                     /\ OtherRoomsKept(r)
                [] Dropped ->
                     /\ Count(state.inventory, x) = Count(prev.state.inventory, x) - 1
                     /\ \A y \in ItemUniverse \ {x} :
                          Count(state.inventory, y) = Count(prev.state.inventory, y)
                     /\ ItemsOf(rooms, r) = Append(ItemsOf(prev.rooms, r), x)
                     /\ OtherRoomsKept(r)
                [] Loaded ->
                     /\ state.inventory = saved.state.inventory
                     /\ \A q \in DOMAIN rooms :
                          ItemsOf(rooms, q) = ItemsOf(saved.rooms, q)
                [] OTHER ->
                     /\ state.inventory = prev.state.inventory
                     /\ \A q \in DOMAIN rooms :
                          ItemsOf(rooms, q) = ItemsOf(prev.rooms, q)

\* one of the two coins of the Pit has been picked up: the other is still
\* there
C20_Witness ==
    /\ Got /\ last.noun = "coin"
    /\ Count(ItemsOf(prev.rooms, "Pit"), "coin") = 2
    /\ Count(ItemsOf(rooms, "Pit"), "coin") = 1
    /\ state.inventory[Len(state.inventory)] = "coin"
    /\ Total(state, rooms, "coin") = 2

\* an item has been dropped in a room other than the one it came from
C20_WitnessDrop ==
    /\ Dropped
    /\ prev.state.current_room # "Dungeon"
    /\ last.noun \in Range(ItemsOf(World.rooms, "Dungeon"))
    /\ last.noun \in Range(ItemsOf(rooms, prev.state.current_room))

\* a used item is still held
C20_WitnessUse ==
    /\ last.verb = "use" /\ last.noun = "ration"
    /\ state.health # prev.state.health
    /\ "ration" \in Range(state.inventory)

\* a load has undone a get
C20_WitnessLoad ==
    /\ Loaded
    /\ Len(prev.state.inventory) > Len(state.inventory)

====
